---- MODULE Spec2Model ----
(***************************************************************************)
(* A model of vbus-lib (src/vbus.c): the resynchronising reader thread     *)
(* that decodes packets  SYNC HDR FRAME*  from a byte stream, the          *)
(* checksum and frame decoders it uses, and the lifecycle around it        *)
(* (vbus_init, the thread-specific destructor, vbus_join).                 *)
(***************************************************************************)
EXTENDS Integers, Sequences, FiniteSets, TLC

(***************************************************************************)
(* Program constants.                                                      *)
(***************************************************************************)
VBUS_SYNC == 170
VBUS_WIRE_HDR == 9
VBUS_WIRE_FRAME == 6
VBUS_FRAME_LEN == 4

\* The errno value the model distinguishes (errno.h); 0 is "no error" and is
\* also the value of the NULL pointer.
EIO == 5

(***************************************************************************)
(* Bounds of the model.                                                    *)
(***************************************************************************)
\* Largest FRAME-CNT of the packets put on the wire.
MaxFrames == 2
\* Number of segments (packets, damaged packets, junk) an input stream has.
MaxSegs == 2
\* vbus_init calls of the specification of the key
NumCalls == 2

(***************************************************************************)
(* 8-bit arithmetic, as C computes it on uint8_t.                          *)
(***************************************************************************)
Byte == 0..255

Pow2(n) == 2 ^ n

Bit(x, n) == (x \div Pow2(n)) % 2

RECURSIVE BitOrUpTo(_, _, _)
BitOrUpTo(a, b, n) ==
    IF n < 0 THEN 0
    ELSE (IF Bit(a, n) = 1 \/ Bit(b, n) = 1 THEN Pow2(n) ELSE 0)
         + BitOrUpTo(a, b, n - 1)

RECURSIVE BitAndUpTo(_, _, _)
BitAndUpTo(a, b, n) ==
    IF n < 0 THEN 0
    ELSE (IF Bit(a, n) = 1 /\ Bit(b, n) = 1 THEN Pow2(n) ELSE 0)
         + BitAndUpTo(a, b, n - 1)

\* a | b and a & b on values of up to 16 bits
BitOr(a, b) == BitOrUpTo(a, b, 15)
BitAnd(a, b) == BitAndUpTo(a, b, 15)

\* ~a on a uint8_t
BitNot8(a) == 255 - a

(***************************************************************************)
(* vbus_crc_ok: the sum of the first len-1 bytes in a uint8_t, negated,    *)
(* top bit cleared, compared with the last byte.                           *)
(***************************************************************************)
RECURSIVE vbus_crc_sum(_, _)
vbus_crc_sum(buffer, n) ==
    IF n = 0 THEN 0 ELSE (vbus_crc_sum(buffer, n - 1) + buffer[n]) % 256

\* vbus_crc_ok without the & 0x7f
vbus_crc_ok_nomask(buffer, len) ==
    BitNot8(vbus_crc_sum(buffer, len - 1)) = buffer[len]

vbus_crc_ok(buffer, len) ==
    BitAnd(BitNot8(vbus_crc_sum(buffer, len - 1)), 127) = buffer[len]

(***************************************************************************)
(* struct vbus_pkt, and the NULL packet pointer.                           *)
(***************************************************************************)
NullPkt == [null |-> TRUE, dst |-> 0, src |-> 0, cmd |-> 0, proto |-> 0,
            frames |-> 0, aux_data |-> <<>>]

\* vbus_parse_header with the two bytes of dst, src and cmd the other way round
vbus_parse_header_swapped(buffer, mallocOk) ==
    IF ~vbus_crc_ok(buffer, VBUS_WIRE_HDR) THEN NullPkt
    ELSE IF ~mallocOk THEN NullPkt
    ELSE [null |-> FALSE,
          dst |-> BitOr(buffer[2], buffer[1] * 256),
          src |-> BitOr(buffer[4], buffer[3] * 256),
          proto |-> buffer[5],
          cmd |-> BitOr(buffer[7], buffer[6] * 256),
          frames |-> buffer[8],
          aux_data |-> <<>>]

\* vbus_parse_header: NULL when the checksum is wrong or malloc fails,
\* otherwise a packet with the header fields and room for 4 * frames bytes.
vbus_parse_header(buffer, mallocOk) ==
    IF ~vbus_crc_ok(buffer, VBUS_WIRE_HDR) THEN NullPkt
    ELSE IF ~mallocOk THEN NullPkt
    ELSE [null |-> FALSE,
          dst |-> BitOr(buffer[1], buffer[2] * 256),
          src |-> BitOr(buffer[3], buffer[4] * 256),
          proto |-> buffer[5],
          cmd |-> BitOr(buffer[6], buffer[7] * 256),
          frames |-> buffer[8],
          aux_data |-> <<>>]

(***************************************************************************)
(* vbus_read_frame, after its six bytes are in buffer.  In C the           *)
(* conditional operator binds weaker than |, so                            *)
(*     frame[k] = buffer[k] | (buffer[4] & m) ? 0x80 : 0                   *)
(* is  frame[k] = (buffer[k] | (buffer[4] & m)) ? 0x80 : 0.                *)
(***************************************************************************)
vbus_frame_byte(lo, msb, mask) ==
    IF BitOr(lo, BitAnd(msb, mask)) # 0 THEN 128 ELSE 0

vbus_decode_frame(buffer) ==
    << vbus_frame_byte(buffer[1], buffer[5], 1),
       vbus_frame_byte(buffer[2], buffer[5], 2),
       vbus_frame_byte(buffer[3], buffer[5], 4),
       vbus_frame_byte(buffer[4], buffer[5], 8) >>

\* [rc, frame]: rc = -1 on a wrong checksum, else 0 and the four bytes stored.
vbus_read_frame_nocrc(buffer) ==
    [rc |-> 0, frame |-> vbus_decode_frame(buffer)]

vbus_read_frame(buffer) ==
    IF ~vbus_crc_ok(buffer, VBUS_WIRE_FRAME)
    THEN [rc |-> -1, frame |-> <<>>]
    ELSE [rc |-> 0, frame |-> vbus_decode_frame(buffer)]

(***************************************************************************)
(* The wire format as the protocol defines it (header comment of vbus.c):  *)
(* used to build input streams and to state what a stream should decode    *)
(* to.  Nothing below in this section is the reader's code.                *)
(***************************************************************************)
RECURSIVE SeqSum(_)
SeqSum(s) == IF s = <<>> THEN 0 ELSE Head(s) + SeqSum(Tail(s))

\* CRC of the bytes s: their sum, negated, top bit cleared.
WireCrc(s) == (255 - (SeqSum(s) % 256)) % 128

WithCrc(s) == Append(s, WireCrc(s))

\* The frame carrying the four logical bytes p (a sequence of 4 bytes).
EncodeFrame(p) ==
    WithCrc(<< p[1] % 128, p[2] % 128, p[3] % 128, p[4] % 128,
               (p[1] \div 128) + 2 * (p[2] \div 128)
               + 4 * (p[3] \div 128) + 8 * (p[4] \div 128) >>)

EncodeHeader(h) ==
    WithCrc(<< h.dst % 256, h.dst \div 256, h.src % 256, h.src \div 256,
               h.proto, h.cmd % 256, h.cmd \div 256, h.frames >>)

RECURSIVE EncodeFrames(_)
EncodeFrames(payload) ==
    IF Len(payload) < VBUS_FRAME_LEN THEN <<>>
    ELSE EncodeFrame(SubSeq(payload, 1, VBUS_FRAME_LEN))
         \o EncodeFrames(SubSeq(payload, VBUS_FRAME_LEN + 1, Len(payload)))

\* A logical packet: the header fields and the payload bytes.
MkPkt(dst, src, proto, cmd, payload) ==
    [null |-> FALSE, dst |-> dst, src |-> src, cmd |-> cmd, proto |-> proto,
     frames |-> Len(payload) \div VBUS_FRAME_LEN, aux_data |-> payload]

EncodePkt(p) == <<VBUS_SYNC>> \o EncodeHeader(p) \o EncodeFrames(p.aux_data)

\* The logical byte a frame's wire bytes stand for.
WireByte(lo, msb, k) == lo + 128 * ((msb \div Pow2(k)) % 2)

WireFramePayload(f) ==
    << WireByte(f[1], f[5], 0), WireByte(f[2], f[5], 1),
       WireByte(f[3], f[5], 2), WireByte(f[4], f[5], 3) >>

Clean(s) == \A k \in 1..Len(s) : s[k] < 128

WireOk(s) == Clean(s) /\ s[Len(s)] = WireCrc(SubSeq(s, 1, Len(s) - 1))

\* The header bytes after a marker at position q of s, and its frames.
HdrAt(s, q) == SubSeq(s, q + 1, q + VBUS_WIRE_HDR)
FrameAt(s, q, f) ==
    SubSeq(s, q + VBUS_WIRE_HDR + VBUS_WIRE_FRAME * (f - 1) + 1,
              q + VBUS_WIRE_HDR + VBUS_WIRE_FRAME * f)
FrameCntAt(s, q) == s[q + VBUS_WIRE_HDR - 1]
PktEndAt(s, q) == q + VBUS_WIRE_HDR + VBUS_WIRE_FRAME * FrameCntAt(s, q)

\* A whole well-formed packet starts at position q of s.
WellFormedAt(s, q) ==
    /\ q >= 1 /\ q + VBUS_WIRE_HDR <= Len(s)
    /\ s[q] = VBUS_SYNC
    /\ WireOk(HdrAt(s, q))
    /\ PktEndAt(s, q) <= Len(s)
    /\ \A f \in 1..FrameCntAt(s, q) : WireOk(FrameAt(s, q, f))

RECURSIVE WirePayloadAt(_, _, _)
WirePayloadAt(s, q, f) ==
    IF f = 0 THEN <<>>
    ELSE WirePayloadAt(s, q, f - 1) \o WireFramePayload(FrameAt(s, q, f))

\* The packet the well-formed wire packet at q stands for.
WirePktAt(s, q) ==
    LET h == HdrAt(s, q) IN
    MkPkt(h[1] + 256 * h[2], h[3] + 256 * h[4], h[5], h[6] + 256 * h[7],
          WirePayloadAt(s, q, h[8]))

(***************************************************************************)
(* Input streams.  A stream is a concatenation of at most MaxSegs          *)
(* segments: whole packets, packets cut short, packets with one byte       *)
(* damaged, packets interrupted by a byte with the top bit set, and junk.  *)
(***************************************************************************)
PayMixed == <<18, 0, 128, 255>>
PayHigh == <<128, 0, 0, 128>>

RECURSIVE PayloadOf(_)
PayloadOf(f) ==
    IF f = 0 THEN <<>>
    ELSE PayloadOf(f - 1) \o (IF f % 2 = 1 THEN PayMixed ELSE PayHigh)

\* dst 0x1234, src 0, proto 1, cmd 0x10, and f frames
PktA(f) == MkPkt(4660, 0, 1, 16, PayloadOf(f))
\* one frame whose bytes are all 0x00 or 0x80
PktHigh == MkPkt(16, 32545, 127, 256, PayHigh)

Packets == {PktA(f) : f \in 0..MaxFrames} \cup {PktHigh}

\* the packet the damaged segments are cut from: header and one frame
Victim == EncodePkt(PktA(1))

Prefix(w, n) == SubSeq(w, 1, n)

Damage(w, k) == [w EXCEPT ![k] = (w[k] + 1) % 128]

TruncPoints == {1, 2, 5, 9, 10, 11, 15}
DamagePoints == {2, 9, 10, 11, 15, 16}
AbortPoints == {5, 12}

Junk == {<<85>>, <<128>>, <<VBUS_SYNC>>}

Segments ==
    Junk
    \cup {EncodePkt(p) : p \in Packets}
    \cup {Prefix(Victim, n) : n \in TruncPoints}
    \cup {Damage(Victim, k) : k \in DamagePoints}
    \cup {Append(Prefix(Victim, n), x) : n \in AbortPoints, x \in {128, VBUS_SYNC}}
    \cup {Tail(Victim)}

RECURSIVE StreamsOf(_)
StreamsOf(n) ==
    IF n = 0 THEN {<<>>}
    ELSE LET shorter == StreamsOf(n - 1) IN
         shorter \cup {s \o g : s \in shorter, g \in Segments}

\* the streams of the reader's specification, and of the lifecycle's
Streams == StreamsOf(MaxSegs)
LifeStreams == StreamsOf(1)

Paths == {"-", "/dev/ttyU0"}

(***************************************************************************)
(* State.                                                                  *)
(***************************************************************************)
VARIABLES
    stream,     \* the bytes the device delivers before read() stops returning 1
    args,       \* the arguments of the vbus_init call: [vbus_fn, do_stty]
    vbus_key,   \* the global pthread_key_t
    keys,       \* the keys pthread_key_create has handed out
    sc,         \* the softc: [alloc, fd, do_stty, td]
    tty,        \* the device's terminal configuration: "orig" or "raw"
    initRet,    \* what vbus_init returned: "none" (not called), "NULL", "sc"
    pc,         \* where the worker thread is
    tsd,        \* the worker's thread-specific value under vbus_key
    errno,      \* the worker's errno
    retval,     \* the worker's exit value
    nread,      \* number of bytes the worker has read
    i,          \* the i of vbus_thread
    buffer,     \* the header bytes of vbus_thread read so far
    fbuf,       \* the buffer of vbus_read_frame, the bytes read so far
    pkt,        \* the pkt of vbus_thread
    syncPos,    \* position in the stream of the last SYNC the hunt found
    pktLive,    \* packets malloc'ed and not yet freed
    trace,      \* the calls made on the handler, the device and the heap
    joinPc,     \* the caller's vbus_join: "idle", "blocked", "returned", "crashed"
    joinTd,     \* the sc->td vbus_join read
    joinRet,    \* what vbus_join returned
    fnIn,       \* the arguments of a function called on its own
    fnOut,      \* what that call returned
    calls       \* the vbus_init calls of SpecKey: [pc, key] for each

vars == << stream, args, vbus_key, keys, sc, tty, initRet, pc, tsd, errno,
           retval, nread, i, buffer, fbuf, pkt, syncPos, pktLive, trace,
           joinPc, joinTd, joinRet, fnIn, fnOut, calls >>

workerVars == << pc, tsd, errno, retval, nread, i, buffer, fbuf, pkt,
                 syncPos, pktLive >>
joinVars == << joinPc, joinTd, joinRet >>
fnVars == << fnIn, fnOut, calls >>

\* One entry of the trace.
Ev(op, ctx, arg) ==
    [op |-> op, ctx |-> ctx, arg |-> arg, pkt |-> NullPkt, pos |-> 0, sync |-> 0]

NoSc == [alloc |-> "none", fd |-> 0, do_stty |-> FALSE, td |-> "none"]

(***************************************************************************)
(* vbus_cleanup(sc), run in thread ctx: restore the terminal if do_stty,   *)
(* close the descriptor unless it is -1, call the filter with NULL, free   *)
(* the softc.  With sc == NULL only free(NULL) happens.  The filter is     *)
(* taken to be a function (not NULL), and the restoring tcsetattr, whose   *)
(* result the code ignores, to succeed.  Gives the new softc, terminal     *)
(* configuration and trace.                                                *)
(***************************************************************************)
\* vbus_cleanup without the close()
vbus_cleanup_noclose(ctx, s, ttyv, tr, pos) ==
    IF s.alloc = "none"
    THEN [sc |-> s, tty |-> ttyv, trace |-> tr]
    ELSE LET t1 == IF s.do_stty
                   THEN Append(tr, Ev("tcsetattr", ctx, "orig")) ELSE tr
             t3 == Append(t1, [Ev("filter", ctx, "") EXCEPT !.pos = pos])
             t4 == Append(t3, Ev("free", ctx, "sc"))
         IN  [sc |-> [s EXCEPT !.alloc = "freed"],
              tty |-> IF s.do_stty THEN "orig" ELSE ttyv,
              trace |-> t4]

\* vbus_cleanup calling the filter first
vbus_cleanup_sentinel_first(ctx, s, ttyv, tr, pos) ==
    IF s.alloc = "none"
    THEN [sc |-> s, tty |-> ttyv, trace |-> tr]
    ELSE LET t1 == Append(tr, [Ev("filter", ctx, "") EXCEPT !.pos = pos])
             t2 == IF s.do_stty
                   THEN Append(t1, Ev("tcsetattr", ctx, "orig")) ELSE t1
             t3 == IF s.fd # -1 THEN Append(t2, Ev("close", ctx, "")) ELSE t2
             t4 == Append(t3, Ev("free", ctx, "sc"))
         IN  [sc |-> [s EXCEPT !.alloc = "freed"],
              tty |-> IF s.do_stty THEN "orig" ELSE ttyv,
              trace |-> t4]

vbus_cleanup(ctx, s, ttyv, tr, pos) ==
    IF s.alloc = "none"
    THEN [sc |-> s, tty |-> ttyv, trace |-> tr]
    ELSE LET t1 == IF s.do_stty
                   THEN Append(tr, Ev("tcsetattr", ctx, "orig")) ELSE tr
             t2 == IF s.fd # -1 THEN Append(t1, Ev("close", ctx, "")) ELSE t1
             t3 == Append(t2, [Ev("filter", ctx, "") EXCEPT !.pos = pos])
             t4 == Append(t3, Ev("free", ctx, "sc"))
         IN  [sc |-> [s EXCEPT !.alloc = "freed"],
              tty |-> IF s.do_stty THEN "orig" ELSE ttyv,
              trace |-> t4]

(***************************************************************************)
(* vbus_init, called once with the arguments args.  Each library call it   *)
(* makes may fail; every failure goes to err: vbus_cleanup(sc), return     *)
(* NULL.  vbus_fn is a string (not NULL); without open() the descriptor is *)
(* the 0 that memset left, the standard input.                             *)
(***************************************************************************)
\* line 207: whether open() is called.  The condition is
\*     vbus_fn != NULL || strcmp(vbus_fn, "-") != 0
\* and vbus_fn is a string here, never NULL.
vbus_init_opens(vbus_fn) == vbus_fn # "NULL" \/ vbus_fn # "-"

vbus_init_err(s, ttyv, tr) ==
    LET c == vbus_cleanup("caller", s, ttyv, tr, 0) IN
    /\ sc' = c.sc
    /\ tty' = c.tty
    /\ trace' = c.trace
    /\ initRet' = "NULL"
    /\ UNCHANGED pc

vbus_init ==
    /\ initRet = "none"
    /\ \E keyOk, mallocOk, openOk, tcgetOk, tcsetOk, createOk \in BOOLEAN :
         LET create == vbus_key = 0
             newKey == Cardinality(keys)
             t0 == IF create
                   THEN Append(trace, Ev("key_create", "caller",
                                         IF keyOk THEN "ok" ELSE "fail"))
                   ELSE trace
             s1 == [alloc |-> "live", fd |-> 0, do_stty |-> FALSE, td |-> "none"]
             t1 == Append(t0, Ev("malloc", "caller", "sc"))
             opens == vbus_init_opens(args.vbus_fn)
             s2 == IF opens THEN [s1 EXCEPT !.fd = IF openOk THEN 3 ELSE -1]
                   ELSE s1
             t2 == IF opens
                   THEN Append(t1, [Ev("open", "caller", args.vbus_fn)
                                      EXCEPT !.pos = s2.fd])
                   ELSE t1
             t3 == IF args.do_stty
                   THEN Append(t2, Ev("tcgetattr", "caller", "")) ELSE t2
             stty == args.do_stty /\ tcgetOk /\ tcsetOk
             s4 == [s2 EXCEPT !.do_stty = stty]
             t4 == IF stty THEN Append(t3, Ev("tcsetattr", "caller", "raw")) ELSE t3
             tty4 == IF stty THEN "raw" ELSE tty
         IN
         /\ vbus_key' = IF create /\ keyOk THEN newKey ELSE vbus_key
         /\ keys' = IF create /\ keyOk THEN keys \cup {newKey} ELSE keys
         /\ IF create /\ ~keyOk THEN vbus_init_err(NoSc, tty, t0)
            ELSE IF ~mallocOk THEN vbus_init_err(NoSc, tty, t0)
            ELSE IF s2.fd = -1 THEN vbus_init_err(s2, tty, t2)
            ELSE IF args.do_stty /\ ~tcgetOk THEN vbus_init_err(s2, tty, t3)
            ELSE IF args.do_stty /\ ~tcsetOk THEN vbus_init_err(s2, tty, t3)
            ELSE IF ~createOk THEN vbus_init_err(s4, tty4, t4)
            ELSE /\ sc' = [s4 EXCEPT !.td = "worker"]
                 /\ tty' = tty4
                 /\ trace' = Append(t4, Ev("pthread_create", "caller", ""))
                 /\ initRet' = "sc"
                 /\ pc' = "start"
    /\ UNCHANGED << fnVars, stream, args, tsd, errno, retval, nread, i, buffer, fbuf,
                    pkt, syncPos, pktLive, joinVars >>

(***************************************************************************)
(* vbus_thread.                                                            *)
(***************************************************************************)
\* lines 162-165: pthread_setspecific; on failure clean up and exit with
\* errno.  pthread_setspecific returns its error and leaves errno alone, so
\* errno is 0, as in any new thread, or what a call made in vbus_cleanup
\* (tcsetattr, close, the filter) left there.
vbus_thread_start ==
    /\ pc = "start"
    /\ \E ok \in BOOLEAN :
         IF ok
         THEN /\ tsd' = "sc"
              /\ pc' = "hunt"
              /\ UNCHANGED << sc, tty, trace, errno, retval >>
         ELSE LET c == vbus_cleanup("worker", sc, tty, trace, nread) IN
              /\ sc' = c.sc
              /\ tty' = c.tty
              /\ trace' = Append(c.trace, Ev("pthread_exit", "worker", "start"))
              /\ \E e \in {errno, EIO} : errno' = e /\ retval' = e
              /\ pc' = "done"
              /\ UNCHANGED tsd
    /\ UNCHANGED << fnVars, stream, args, vbus_key, keys, initRet, nread, i, buffer,
                    fbuf, pkt, syncPos, pktLive, joinVars >>

\* vbus_fini: the value the thread exits with
vbus_fini(e) == 0

\* a vbus_getc that does not look at what read() returned: the loop goes on
vbus_getc_fail_ignored ==
    /\ pc \in {"hunt", "hdr", "frame"}
    /\ nread = Len(stream)
    /\ UNCHANGED vars

\* vbus_getc when read() does not return 1: end of stream (errno untouched)
\* or an error (errno set); vbus_fini ends the thread.
vbus_getc_fail ==
    /\ pc \in {"hunt", "hdr", "frame"}
    /\ nread = Len(stream)
    /\ \E e \in {0, EIO} :
         /\ errno' = IF e = 0 THEN errno ELSE e
         /\ retval' = vbus_fini(IF e = 0 THEN errno ELSE e)
         /\ trace' = Append(trace, [Ev("pthread_exit", "worker", pc)
                                      EXCEPT !.pos = e])
    /\ pc' = "exiting"
    /\ UNCHANGED << fnVars, stream, args, vbus_key, keys, sc, tty, initRet, tsd, nread,
                    i, buffer, fbuf, pkt, syncPos, pktLive, joinVars >>

\* the thread exiting with no destructor run (a key created without one)
vbus_dtor_skip ==
    /\ pc = "exiting"
    /\ pc' = "done"
    /\ UNCHANGED << fnVars, stream, args, vbus_key, keys, sc, tty, initRet, tsd, errno,
                    retval, nread, i, buffer, fbuf, pkt, syncPos, pktLive,
                    trace, joinVars >>

\* the thread-specific destructor vbus_dtor, run as the thread exits
vbus_dtor ==
    /\ pc = "exiting"
    /\ IF tsd = "sc"
       THEN LET c == vbus_cleanup("worker", sc, tty, trace, nread) IN
            /\ sc' = c.sc
            /\ tty' = c.tty
            /\ trace' = c.trace
            /\ tsd' = "NULL"
       ELSE UNCHANGED << sc, tty, trace, tsd >>
    /\ pc' = "done"
    /\ UNCHANGED << fnVars, stream, args, vbus_key, keys, initRet, errno, retval, nread,
                    i, buffer, fbuf, pkt, syncPos, pktLive, joinVars >>

\* the byte the next successful read() gives
NextByte == stream[nread + 1]

\* a hunt that any byte with the top bit set ends
IsSync_topbit(ch) == BitAnd(ch, 128) # 0

\* ch != VBUS_SYNC ends the hunt
IsSync(ch) == ch = VBUS_SYNC

\* lines 169-171: the do-while hunting for SYNC
vbus_thread_hunt ==
    /\ pc = "hunt"
    /\ nread < Len(stream)
    /\ nread' = nread + 1
    /\ IF IsSync(NextByte)
       THEN /\ pc' = "hdr"
            /\ i' = 0
            /\ buffer' = <<>>
            /\ syncPos' = nread + 1
       ELSE UNCHANGED << pc, i, buffer, syncPos >>
    /\ UNCHANGED << fnVars, stream, args, vbus_key, keys, sc, tty, initRet, tsd, errno,
                    retval, fbuf, pkt, pktLive, trace, joinVars >>

\* the filter called before the frame loop
AfterHeader_early(p) == "filter"

\* where the reader goes with the packet vbus_parse_header returned:
\* the frame loop runs while i < pkt->frames, then the filter is called
AfterHeader(p) == IF 0 < p.frames THEN "frame" ELSE "filter"

\* An entry of the trace made by the reader at stream position pos, in the
\* attempt that began with the SYNC at position sync.
RdEv(op, arg, pos, sync) ==
    [Ev(op, "worker", arg) EXCEPT !.pos = pos, !.sync = sync]

\* a reader that takes a header byte equal to VBUS_SYNC as the marker of a
\* new header instead of going back to the hunt
vbus_thread_hdr_resync ==
    /\ pc = "hdr"
    /\ nread < Len(stream)
    /\ nread' = nread + 1
    /\ \E mallocOk \in BOOLEAN :
         LET b == Append(buffer, NextByte)
             p == vbus_parse_header(b, mallocOk)
         IN
         IF NextByte = VBUS_SYNC
         THEN /\ pc' = "hdr"
              /\ i' = 0
              /\ buffer' = <<>>
              /\ syncPos' = nread + 1
              /\ trace' = Append(trace, RdEv("goto top", "hdr-topbit",
                                             nread + 1, syncPos))
              /\ UNCHANGED << pkt, pktLive, fbuf >>
         ELSE
         /\ buffer' = b
         /\ UNCHANGED syncPos
         /\ IF BitAnd(NextByte, 128) # 0
            THEN /\ pc' = "hunt"
                 /\ trace' = Append(trace, RdEv("goto top", "hdr-topbit",
                                                nread + 1, syncPos))
                 /\ UNCHANGED << i, pkt, pktLive, fbuf >>
            ELSE IF i + 1 < VBUS_WIRE_HDR
            THEN /\ i' = i + 1
                 /\ UNCHANGED << pc, pkt, pktLive, fbuf, trace >>
            ELSE /\ pkt' = p
                 /\ IF p.null
                    THEN /\ pc' = "hunt"
                         /\ i' = i + 1
                         /\ trace' = Append(trace,
                               RdEv("continue",
                                    IF vbus_crc_ok(b, VBUS_WIRE_HDR)
                                    THEN "malloc" ELSE "hdr-crc",
                                    nread + 1, syncPos))
                         /\ UNCHANGED << pktLive, fbuf >>
                    ELSE /\ pc' = AfterHeader(p)
                         /\ i' = 0
                         /\ fbuf' = <<>>
                         /\ pktLive' = pktLive + 1
                         /\ trace' = Append(trace, RdEv("malloc", "pkt",
                                                        nread + 1, syncPos))
    /\ UNCHANGED << fnVars, stream, args, vbus_key, keys, sc, tty, initRet, tsd, errno,
                    retval, joinVars >>

\* lines 172-179: one header byte; with the ninth, vbus_parse_header
vbus_thread_hdr ==
    /\ pc = "hdr"
    /\ nread < Len(stream)
    /\ nread' = nread + 1
    /\ \E mallocOk \in BOOLEAN :
         LET b == Append(buffer, NextByte)
             p == vbus_parse_header(b, mallocOk)
         IN
         /\ buffer' = b
         /\ IF BitAnd(NextByte, 128) # 0
            THEN /\ pc' = "hunt"
                 /\ trace' = Append(trace, RdEv("goto top", "hdr-topbit",
                                                nread + 1, syncPos))
                 /\ UNCHANGED << i, pkt, pktLive, fbuf >>
            ELSE IF i + 1 < VBUS_WIRE_HDR
            THEN /\ i' = i + 1
                 /\ UNCHANGED << pc, pkt, pktLive, fbuf, trace >>
            ELSE /\ pkt' = p
                 /\ IF p.null
                    THEN /\ pc' = "hunt"
                         /\ i' = i + 1
                         /\ trace' = Append(trace,
                               RdEv("continue",
                                    IF vbus_crc_ok(b, VBUS_WIRE_HDR)
                                    THEN "malloc" ELSE "hdr-crc",
                                    nread + 1, syncPos))
                         /\ UNCHANGED << pktLive, fbuf >>
                    ELSE /\ pc' = AfterHeader(p)
                         /\ i' = 0
                         /\ fbuf' = <<>>
                         /\ pktLive' = pktLive + 1
                         /\ trace' = Append(trace, RdEv("malloc", "pkt",
                                                        nread + 1, syncPos))
    /\ UNCHANGED << fnVars, stream, args, vbus_key, keys, sc, tty, initRet, tsd, errno,
                    retval, syncPos, joinVars >>

\* lines 180-183 and vbus_read_frame: one frame byte; with the sixth, the
\* checksum and the four bytes stored at pkt->aux_data + i * VBUS_FRAME_LEN.
\* fbuf keeps the bytes of the last frame until the next call's first byte.
vbus_thread_frame ==
    /\ pc = "frame"
    /\ nread < Len(stream)
    /\ nread' = nread + 1
    /\ LET b == IF Len(fbuf) = VBUS_WIRE_FRAME THEN <<NextByte>>
                ELSE Append(fbuf, NextByte)
           r == vbus_read_frame(b)
       IN
       /\ fbuf' = b
       /\ IF BitAnd(NextByte, 128) # 0
          THEN /\ pc' = "hunt"
               /\ trace' = Append(trace, RdEv("goto top", "frame-topbit",
                                              nread + 1, syncPos))
               /\ UNCHANGED << i, pkt >>
          ELSE IF Len(b) < VBUS_WIRE_FRAME
          THEN UNCHANGED << pc, i, pkt, trace >>
          ELSE IF r.rc # 0
          THEN /\ pc' = "hunt"
               /\ trace' = Append(trace, RdEv("goto top", "frame-crc",
                                              nread + 1, syncPos))
               /\ UNCHANGED << i, pkt >>
          ELSE /\ pkt' = [pkt EXCEPT !.aux_data = @ \o r.frame]
               /\ i' = i + 1
               /\ pc' = IF i + 1 < pkt.frames THEN "frame" ELSE "filter"
               /\ UNCHANGED trace
    /\ UNCHANGED << fnVars, stream, args, vbus_key, keys, sc, tty, initRet, tsd, errno,
                    retval, buffer, syncPos, pktLive, joinVars >>

\* line 184: sc->filter(sc->argp, pkt)
vbus_thread_filter ==
    /\ pc = "filter"
    /\ trace' = Append(trace, [Ev("filter", "worker", "") EXCEPT
                                 !.pkt = pkt, !.pos = nread, !.sync = syncPos])
    /\ pc' = "infilter"
    /\ UNCHANGED << fnVars, stream, args, vbus_key, keys, sc, tty, initRet, tsd, errno,
                    retval, nread, i, buffer, fbuf, pkt, syncPos, pktLive,
                    joinVars >>

\* a reader that goes back to the hunt without free(pkt)
vbus_thread_nofree ==
    /\ pc = "infilter"
    /\ pc' = "hunt"
    /\ UNCHANGED << fnVars, stream, args, vbus_key, keys, sc, tty, initRet, tsd, errno,
                    retval, nread, i, buffer, fbuf, pkt, syncPos, pktLive,
                    trace, joinVars >>

\* the filter returns; line 185: free(pkt)
vbus_thread_free ==
    /\ pc = "infilter"
    /\ pktLive' = pktLive - 1
    /\ trace' = Append(trace, RdEv("free", "pkt", nread, syncPos))
    /\ pc' = "hunt"
    /\ UNCHANGED << fnVars, stream, args, vbus_key, keys, sc, tty, initRet, tsd, errno,
                    retval, nread, i, buffer, fbuf, pkt, syncPos, joinVars >>

(***************************************************************************)
(* vbus_join, called by the thread that vbus_init returned the softc to.   *)
(* It reads sc->td and then waits.  When the worker has already freed the  *)
(* softc the read is of freed memory: it may still give the thread, give   *)
(* something else (pthread_join then fails and rv is returned              *)
(* uninitialised), or fault.                                               *)
(***************************************************************************)
vbus_join_call ==
    /\ initRet = "sc"
    /\ joinPc = "idle"
    /\ IF sc.alloc = "live"
       THEN joinTd' = sc.td /\ joinPc' = "blocked"
       ELSE \E o \in {"worker", "garbage", "fault"} :
              /\ joinTd' = o
              /\ joinPc' = IF o = "fault" THEN "crashed" ELSE "blocked"
    /\ UNCHANGED << fnVars, stream, args, vbus_key, keys, sc, tty, initRet, workerVars,
                    trace, joinRet >>

vbus_join_return ==
    /\ joinPc = "blocked"
    /\ \/ /\ joinTd = "worker"
          /\ pc = "done"
          /\ joinRet' = retval
       \/ /\ joinTd = "garbage"
          /\ joinRet' \in {0, EIO, -1}
    /\ joinPc' = "returned"
    /\ UNCHANGED << fnVars, stream, args, vbus_key, keys, sc, tty, initRet, workerVars,
                    trace, joinTd >>

(***************************************************************************)
(* Specifications.                                                         *)
(***************************************************************************)
InitCommon ==
    /\ vbus_key = 0
    /\ keys = {}
    /\ sc = NoSc
    /\ tty = "orig"
    /\ initRet = "none"
    /\ pc = "none"
    /\ tsd = "NULL"
    /\ errno = 0
    /\ retval = 0
    /\ nread = 0
    /\ i = 0
    /\ buffer = <<>>
    /\ fbuf = <<>>
    /\ pkt = NullPkt
    /\ syncPos = 0
    /\ pktLive = 0
    /\ trace = <<>>
    /\ joinPc = "idle"
    /\ joinTd = "none"
    /\ joinRet = 0

\* no function is called on its own
NoFn == [fn |-> "none", buffer |-> <<>>, k |-> 0, v |-> 0]

NoRes == [fn |-> "none", mallocOk |-> TRUE, pkt |-> NullPkt,
          before |-> FALSE, after |-> FALSE]

\* a vbus_init call of SpecKey that has not started
Calls == 1 .. NumCalls

NoCalls == [c \in Calls |-> [pc |-> "idle", key |-> -1]]

Worker ==
    \/ vbus_thread_start
    \/ vbus_thread_hunt
    \/ vbus_thread_hdr
    \/ vbus_thread_frame
    \/ vbus_thread_filter
    \/ vbus_thread_free
    \/ vbus_getc_fail
    \/ vbus_dtor

\* The lifecycle: any vbus_init arguments, vbus_join at any time, short streams.
Init ==
    /\ stream \in LifeStreams
    /\ args \in [vbus_fn : Paths, do_stty : BOOLEAN]
    /\ InitCommon
    /\ fnIn = NoFn
    /\ fnOut = NoRes
    /\ calls = NoCalls

Next == vbus_init \/ Worker \/ vbus_join_call \/ vbus_join_return

Spec == Init /\ [][Next]_vars

\* The lifecycle with its scheduling: a thread that can run does run (the
\* worker is one sequential thread, so one of its steps is enabled at a
\* time; the handler returns), and pthread_join returns once it can.
SpecLive == Spec /\ WF_vars(Worker) /\ WF_vars(vbus_join_return)

\* The reader: a device opened without stty, every stream, no vbus_join.
InitWire ==
    /\ stream \in Streams
    /\ args = [vbus_fn |-> "/dev/ttyU0", do_stty |-> FALSE]
    /\ InitCommon
    /\ fnIn = NoFn
    /\ fnOut = NoRes
    /\ calls = NoCalls

NextWire == vbus_init \/ Worker

SpecWire == InitWire /\ [][NextWire]_vars

(***************************************************************************)
(* The decoders called on their own, on arguments drawn from sample sets:  *)
(* vbus_parse_header on nine bytes, and vbus_crc_ok on a span and on the   *)
(* same span with one byte changed.                                        *)
(***************************************************************************)
\* the c-th choice of last byte for body: the right checksum, the checksum
\* plus one, the checksum with the top bit set
LastByte(body, c) ==
    IF c = 0 THEN WireCrc(body)
    ELSE IF c = 1 THEN (WireCrc(body) + 1) % 128
    ELSE WireCrc(body) + 128

\* Nine header bytes: the fields' low and high bytes and a last byte.
HdrBodies ==
    {<<d0, d1, s0, s1, pr, c0, c1, fr>> :
        d0 \in {0, 16, 52, 200}, d1 \in {0, 18, 127}, s0 \in {0, 52},
        s1 \in {0, 127}, pr \in {1, 127}, c0 \in {0, 16}, c1 \in {0, 18, 127},
        fr \in {0, 2, 255}}

FnArgs(fn, buf, k, v) == [fn |-> fn, buffer |-> buf, k |-> k, v |-> v]

HdrInputs ==
    {FnArgs("vbus_parse_header", Append(body, LastByte(body, c)), 0, 0) :
        body \in HdrBodies, c \in {0, 1, 2}}

\* Spans for vbus_crc_ok: frames and headers over a few byte values, with
\* a right or a wrong last byte; position k of the span is given the value v.
FrameBodies ==
    {<<b0, b1, b2, b3, m>> :
        b0 \in {0, 1, 127}, b1 \in {0, 127}, b2 \in {0, 18}, b3 \in {0, 127},
        m \in {0, 5, 15}}

CrcHdrBodies ==
    {<<d0, 18, 0, s1, 1, c0, 0, fr>> :
        d0 \in {0, 52, 127}, s1 \in {0, 127}, c0 \in {0, 16}, fr \in {0, 1, 2}}

CrcSpans ==
    {Append(body, LastByte(body, c)) :
        body \in FrameBodies \cup CrcHdrBodies, c \in {0, 1}}

CrcInputs ==
    {in \in {FnArgs("vbus_crc_ok", span, k, v) :
                span \in CrcSpans, k \in 1..VBUS_WIRE_HDR,
                v \in {0, 1, 64, 127, 128, 146, 255}} :
        in.k <= Len(in.buffer) /\ in.v # in.buffer[in.k]}

FnRes(fn, mallocOk, p, before, after) ==
    [fn |-> fn, mallocOk |-> mallocOk, pkt |-> p,
     before |-> before, after |-> after]

\* vbus_parse_header(buffer) called; malloc may fail
vbus_parse_header_call ==
    /\ fnIn.fn = "vbus_parse_header"
    /\ fnOut.fn = "none"
    /\ \E mallocOk \in BOOLEAN :
         fnOut' = FnRes("vbus_parse_header", mallocOk,
                        vbus_parse_header(fnIn.buffer, mallocOk), FALSE, FALSE)
    /\ UNCHANGED << fnIn, calls, stream, args, vbus_key, keys, sc, tty,
                    initRet, workerVars, trace, joinVars >>

\* vbus_crc_ok(buffer, len) called on the span and on the changed span
vbus_crc_ok_call ==
    /\ fnIn.fn = "vbus_crc_ok"
    /\ fnOut.fn = "none"
    /\ fnOut' = FnRes("vbus_crc_ok", TRUE, NullPkt,
                      vbus_crc_ok(fnIn.buffer, Len(fnIn.buffer)),
                      vbus_crc_ok([fnIn.buffer EXCEPT ![fnIn.k] = fnIn.v],
                                  Len(fnIn.buffer)))
    /\ UNCHANGED << fnIn, calls, stream, args, vbus_key, keys, sc, tty,
                    initRet, workerVars, trace, joinVars >>

InitFn ==
    /\ stream = <<>>
    /\ args = [vbus_fn |-> "/dev/ttyU0", do_stty |-> FALSE]
    /\ InitCommon
    /\ fnIn \in HdrInputs \cup CrcInputs
    /\ fnOut = NoRes
    /\ calls = NoCalls

NextFn == vbus_parse_header_call \/ vbus_crc_ok_call

SpecFn == InitFn /\ [][NextFn]_vars

(***************************************************************************)
(* The key.  vbus_init called NumCalls times, by any threads and in any    *)
(* order, so that the test of vbus_key and pthread_key_create (line 199)   *)
(* of one call interleave with those of another and with the               *)
(* pthread_setspecific (line 162) of the workers already started.  What a  *)
(* call does after the key (lines 201-224) is one step that fails or       *)
(* starts the worker; the reader of a worker is one step to its exit.      *)
(***************************************************************************)
keyOther == << stream, args, sc, tty, initRet, workerVars, trace, joinVars,
               fnIn, fnOut >>

\* the keys pthread_key_create can hand out: any key not in use; the first
\* key of glibc is 0
pthread_key_create(ks) == (0 .. NumCalls) \ ks

\* line 199, left operand: vbus_key == 0
vbus_init_key_test(c) ==
    /\ calls[c].pc = "idle"
    /\ calls' = [calls EXCEPT ![c].pc = IF vbus_key = 0 THEN "create"
                                                        ELSE "setup"]
    /\ UNCHANGED << vbus_key, keys, keyOther >>

\* lines 199-200, right operand: pthread_key_create(&vbus_key, vbus_dtor)
vbus_init_key_create(c) ==
    /\ calls[c].pc = "create"
    /\ \E createOk \in BOOLEAN :
         IF createOk
         THEN \E k \in pthread_key_create(keys) :
                 /\ vbus_key' = k
                 /\ keys' = keys \cup {k}
                 /\ calls' = [calls EXCEPT ![c].pc = "setup"]
         ELSE /\ calls' = [calls EXCEPT ![c].pc = "NULL"]
              /\ UNCHANGED << vbus_key, keys >>
    /\ UNCHANGED keyOther

\* lines 201-228: the softc, the device and pthread_create
vbus_init_rest(c) ==
    /\ calls[c].pc = "setup"
    /\ \E ok \in BOOLEAN :
         calls' = [calls EXCEPT ![c].pc = IF ok THEN "started" ELSE "NULL"]
    /\ UNCHANGED << vbus_key, keys, keyOther >>

\* lines 162-165: the worker binds its softc under the vbus_key of now
vbus_thread_setspecific(c) ==
    /\ calls[c].pc = "started"
    /\ \E ok \in BOOLEAN :
         calls' = [calls EXCEPT ![c] = IF ok
                                        THEN [pc |-> "attached", key |-> vbus_key]
                                        ELSE [pc |-> "exited", key |-> -1]]
    /\ UNCHANGED << vbus_key, keys, keyOther >>

\* lines 166-187, 74-87: the reader up to the failed read, the destructor
\* of the key the softc is bound under
vbus_thread_exit(c) ==
    /\ calls[c].pc = "attached"
    /\ calls' = [calls EXCEPT ![c].pc = "exited"]
    /\ UNCHANGED << vbus_key, keys, keyOther >>

InitKey ==
    /\ stream = <<>>
    /\ args = [vbus_fn |-> "/dev/ttyU0", do_stty |-> FALSE]
    /\ InitCommon
    /\ fnIn = NoFn
    /\ fnOut = NoRes
    /\ calls = NoCalls

NextKey ==
    \E c \in Calls :
        \/ vbus_init_key_test(c)
        \/ vbus_init_key_create(c)
        \/ vbus_init_rest(c)
        \/ vbus_thread_setspecific(c)
        \/ vbus_thread_exit(c)

SpecKey == InitKey /\ [][NextKey]_vars

(***************************************************************************)
(* What the trace shows.                                                   *)
(***************************************************************************)
\* the handler calls: with a packet, and with NULL
PktCalls == {k \in DOMAIN trace : trace[k].op = "filter" /\ ~trace[k].pkt.null}
Sentinels == {k \in DOMAIN trace : trace[k].op = "filter" /\ trace[k].pkt.null}
WorkerSentinels == {k \in Sentinels : trace[k].ctx = "worker"}

Events(op, ctx, arg) ==
    {k \in DOMAIN trace :
        trace[k].op = op /\ trace[k].ctx = ctx /\ trace[k].arg = arg}

\* the worker ended because a read failed, in reader state st
ReadFailedIn(st) == Events("pthread_exit", "worker", st) # {}
ReadFailed == \E st \in {"hunt", "hdr", "frame"} : ReadFailedIn(st)

\* vbus_init changed the terminal configuration
TtyChanged == Events("tcsetattr", "caller", "raw") # {}

(***************************************************************************)
(* C1.  For every 6-byte wire frame whose bytes have the top bit clear     *)
(* and whose checksum is valid, vbus_read_frame stores for i in 0..3 the   *)
(* byte  wire[i] | (bit i of wire[4] ? 0x80 : 0).                          *)
(* The reader is at "frame" or "filter" with six bytes in fbuf exactly     *)
(* when vbus_read_frame has just accepted the frame fbuf and stored it as  *)
(* frame number i of the packet.                                           *)
(***************************************************************************)
FrameJustStored ==
    pc \in {"frame", "filter"} /\ Len(fbuf) = VBUS_WIRE_FRAME

C1_FrameBytesMerged ==
    FrameJustStored =>
        \A k \in 0..3 :
            pkt.aux_data[VBUS_FRAME_LEN * (i - 1) + k + 1]
                = BitOr(fbuf[k + 1], IF Bit(fbuf[5], k) = 1 THEN 128 ELSE 0)

(***************************************************************************)
(* C2.  When a read fails (end of stream or error) in any reader state,    *)
(* the handler is called with NULL exactly once for that worker, and the   *)
(* terminal configuration is restored if and only if vbus_init changed it. *)
(***************************************************************************)
C2_SentinelOnReadFailure ==
    /\ Cardinality(WorkerSentinels) <= 1
    /\ (ReadFailed /\ pc = "done") =>
          /\ Cardinality(WorkerSentinels) = 1
          /\ Cardinality(Sentinels) = 1
          /\ (Events("tcsetattr", "worker", "orig") # {}) <=> TtyChanged
          /\ Cardinality(Events("tcsetattr", "worker", "orig")) <= 1
          /\ tty = "orig"

C2_Witness ==
    /\ pc = "done"
    /\ ReadFailedIn("frame")
    /\ TtyChanged
    /\ Events("tcsetattr", "worker", "orig") # {}
    /\ Cardinality(WorkerSentinels) = 1

(***************************************************************************)
(* C3.  When the worker ends because a read failed, its exit value is the  *)
(* I/O error code, and vbus_join returns that exit value.                  *)
(***************************************************************************)
C3_ExitValueIsErrno ==
    /\ (ReadFailed /\ pc \in {"exiting", "done"}) => retval = errno
    /\ (ReadFailed /\ joinPc = "returned") => joinRet = retval

(***************************************************************************)
(* C4.  A packet is delivered to the handler only if the checksum of its   *)
(* header and of every one of its frames passed (and no byte of them has   *)
(* the top bit set): every packet call is for a well-formed packet of the  *)
(* stream, made when its last frame has been read.                         *)
(***************************************************************************)
C4_DeliveredOnlyIfAllValid ==
    \A k \in PktCalls :
        /\ WellFormedAt(stream, trace[k].sync)
        /\ trace[k].pkt.frames = FrameCntAt(stream, trace[k].sync)

\* a marker followed by a valid header and a frame that fails
HeaderOkFrameBadAt(q) ==
    /\ q >= 1 /\ q + VBUS_WIRE_HDR <= Len(stream)
    /\ stream[q] = VBUS_SYNC
    /\ WireOk(HdrAt(stream, q))
    /\ PktEndAt(stream, q) <= Len(stream)
    /\ \E f \in 1..FrameCntAt(stream, q) : ~WireOk(FrameAt(stream, q, f))

C4_Witness ==
    /\ pc = "done"
    /\ \E q \in 1..Len(stream) :
          /\ HeaderOkFrameBadAt(q)
          /\ Events("goto top", "worker", "frame-crc") # {}
    /\ \E k \in PktCalls : trace[k].pkt.frames = 2

(***************************************************************************)
(* C5.  A byte with the top bit set in the middle of a header or a frame   *)
(* makes the reader abandon the packet in progress (it is never            *)
(* delivered), and the next well-formed packet of the stream after that    *)
(* byte is delivered with the right header fields and payload.  Stated for *)
(* a packet whose marker is the first marker after the byte, and whose     *)
(* malloc did not fail, once the stream has been read to its end.          *)
(***************************************************************************)
TopBitAborts ==
    {k \in DOMAIN trace :
        trace[k].op = "goto top"
        /\ trace[k].arg \in {"hdr-topbit", "frame-topbit"}}

MallocFailedAt(q) ==
    \E k \in Events("continue", "worker", "malloc") : trace[k].sync = q

\* q is the first marker after position p
NextMarker(p, q) ==
    /\ q \in (p + 1)..Len(stream)
    /\ stream[q] = VBUS_SYNC
    /\ \A r \in (p + 1)..(q - 1) : stream[r] # VBUS_SYNC

C5_ResyncDelivers ==
    \A a \in TopBitAborts :
        /\ \A k \in PktCalls : trace[k].sync # trace[a].sync
        /\ pc = "done" =>
             \A q \in 1..Len(stream) :
                 (/\ NextMarker(trace[a].pos, q)
                  /\ WellFormedAt(stream, q)
                  /\ ~MallocFailedAt(q))
                 => \E k \in PktCalls :
                       /\ trace[k].sync = q
                       /\ trace[k].pkt = WirePktAt(stream, q)

(***************************************************************************)
(* C6.  The handler is called only on the worker thread, never on the      *)
(* thread that called vbus_init, whatever vbus_init's outcome.             *)
(***************************************************************************)
C6_HandlerOnlyOnWorker ==
    \A k \in DOMAIN trace : trace[k].op = "filter" => trace[k].ctx = "worker"

(***************************************************************************)
(* C7.  Packets are delivered in the order in which their last frame was   *)
(* received and validated, each as soon as it was (no byte is read between *)
(* its last frame and the call), and the worker reads no byte between the  *)
(* start of a handler call and its return.                                 *)
(***************************************************************************)
DeliveredInOrder ==
    /\ \A k \in PktCalls : trace[k].pos = PktEndAt(stream, trace[k].sync)
    /\ \A k1, k2 \in PktCalls : k1 < k2 => trace[k1].pos < trace[k2].sync
    /\ pc \in {"filter", "infilter"} => nread = PktEndAt(stream, syncPos)
    /\ pc = "infilter" => \E k \in PktCalls : trace[k].pos = nread

NoReadWhileDelivering ==
    (pc \in {"filter", "infilter"}) => (nread' = nread)

C7_OrderedSynchronousDelivery ==
    []DeliveredInOrder /\ [][NoReadWhileDelivering]_vars

C7_Witness ==
    /\ Cardinality(PktCalls) = 2
    /\ \E k \in PktCalls : trace[k].pkt.frames = 2
    /\ pc = "infilter"

(***************************************************************************)
(* C8.  When vbus_init fails it returns NULL, no worker runs, and what it  *)
(* had built is released exactly once: the softc freed, the descriptor     *)
(* closed (and the terminal put back as it was).                           *)
(***************************************************************************)
Opened == {k \in DOMAIN trace : trace[k].op = "open" /\ trace[k].pos # -1}
Closed == {k \in DOMAIN trace : trace[k].op = "close"}
ScMallocs == Events("malloc", "caller", "sc")
ScFrees == {k \in DOMAIN trace : trace[k].op = "free" /\ trace[k].arg = "sc"}

C8_InitFailureReleasesAll ==
    initRet = "NULL" =>
        /\ pc = "none"
        /\ Events("pthread_create", "caller", "") = {}
        /\ sc.alloc \in {"none", "freed"}
        /\ Cardinality(ScFrees) = Cardinality(ScMallocs)
        /\ Cardinality(ScMallocs) <= 1
        /\ Cardinality(Closed) = Cardinality(Opened)
        /\ Cardinality(Opened) <= 1
        /\ tty = "orig"

C8_Witness ==
    /\ initRet = "NULL"
    /\ TtyChanged
    /\ Cardinality(Closed) = 1
    /\ Cardinality(ScFrees) = 1

(***************************************************************************)
(* C9.  Teardown on worker exit is ordered: the terminal configuration is  *)
(* restored if it was changed, then the device is closed, then the handler *)
(* is called with NULL, then the softc is freed; the NULL call comes after *)
(* the worker's last read, and no packet is delivered after it.            *)
(***************************************************************************)
C9_TeardownOrder ==
    \A k \in WorkerSentinels :
        /\ TtyChanged =>
              \E r \in Events("tcsetattr", "worker", "orig") :
                  \E c \in Events("close", "worker", "") : r < c /\ c < k
        /\ \E c \in Events("close", "worker", "") : c < k
        /\ \A f \in ScFrees : k < f
        /\ ScFrees # {}
        /\ \A j \in DOMAIN trace : trace[j].op = "filter" => j <= k
        /\ trace[k].pos = nread
        /\ pc = "done"

C9_Witness ==
    /\ WorkerSentinels # {}
    /\ TtyChanged
    /\ PktCalls # {}
    /\ ReadFailed

(***************************************************************************)
(* C10.  On a stream with no marker byte the reader stays hunting, reads   *)
(* every byte of it, and never calls the handler with a packet.            *)
(***************************************************************************)
NoMarker(s) == \A k \in 1..Len(s) : s[k] # VBUS_SYNC

C10_NoMarkerNoPacket ==
    NoMarker(stream) =>
        /\ pc \in {"none", "start", "hunt", "exiting", "done"}
        /\ PktCalls = {}
        /\ ReadFailed => nread = Len(stream)

C10_Witness ==
    /\ NoMarker(stream)
    /\ Len(stream) > VBUS_WIRE_HDR + VBUS_WIRE_FRAME
    /\ \E k \in 1..Len(stream) : stream[k] >= 128
    /\ pc = "done"
    /\ nread = Len(stream)

(***************************************************************************)
(* C11.  For nine header bytes with the right checksum vbus_parse_header   *)
(* gives (when its malloc succeeds) dst = b0 | b1<<8, src = b2 | b3<<8,    *)
(* proto = b4, cmd = b5 | b6<<8, frames = b7; with a wrong checksum it     *)
(* gives no packet.                                                        *)
(***************************************************************************)
HdrCrcRight(b) ==
    b[VBUS_WIRE_HDR] = WireCrc(SubSeq(b, 1, VBUS_WIRE_HDR - 1))

C11_HeaderFields ==
    fnOut.fn = "vbus_parse_header" =>
        LET b == fnIn.buffer
            p == fnOut.pkt
        IN  IF HdrCrcRight(b) /\ fnOut.mallocOk
            THEN /\ ~p.null
                 /\ p.dst = b[1] + 256 * b[2]
                 /\ p.src = b[3] + 256 * b[4]
                 /\ p.proto = b[5]
                 /\ p.cmd = b[6] + 256 * b[7]
                 /\ p.frames = b[8]
            ELSE p.null

\* the example of the specification: 34 12 00 00 01 10 00 02 and its checksum
C11_Witness ==
    /\ fnOut.fn = "vbus_parse_header"
    /\ SubSeq(fnIn.buffer, 1, 8) = <<52, 18, 0, 0, 1, 16, 0, 2>>
    /\ HdrCrcRight(fnIn.buffer)
    /\ fnOut.pkt.dst = 4660 /\ fnOut.pkt.src = 0 /\ fnOut.pkt.proto = 1
    /\ fnOut.pkt.cmd = 16 /\ fnOut.pkt.frames = 2

(***************************************************************************)
(* C12.  vbus_crc_ok accepts a span exactly when its last byte is the      *)
(* 8-bit sum of the others, negated, top bit cleared; and for an accepted  *)
(* header or frame span, changing any single byte makes vbus_crc_ok        *)
(* reject it.                                                              *)
(***************************************************************************)
CrcChecked == fnOut.fn = "vbus_crc_ok"
SpanLast == Len(fnIn.buffer)

CrcIsNegatedSum ==
    CrcChecked =>
        (fnOut.before <=>
            fnIn.buffer[SpanLast] = WireCrc(SubSeq(fnIn.buffer, 1, SpanLast - 1)))

\* as claimed: any change of any byte
C12_AnyChangeRejected ==
    /\ CrcIsNegatedSum
    /\ (CrcChecked /\ fnOut.before) => ~fnOut.after

\* as the code has it: a change of the checksum byte, or of another byte to
\* another value with the top bit clear
C12_CleanChangeRejected ==
    /\ CrcIsNegatedSum
    /\ (CrcChecked /\ fnOut.before /\ Clean(fnIn.buffer)
          /\ (fnIn.v < 128 \/ fnIn.k = SpanLast))
       => ~fnOut.after

C12_Witness ==
    /\ CrcChecked
    /\ fnOut.before
    /\ SpanLast = VBUS_WIRE_HDR
    /\ fnIn.k = 1
    /\ fnIn.v = 127
    /\ ~fnOut.after

(***************************************************************************)
(* C13.  Round trip: a packet (fields whose wire bytes have the top bit    *)
(* clear, any payload bytes) encoded as marker, header and frames and fed  *)
(* to the reader reaches the handler with the same fields and payload.     *)
(* Stated for the packet a stream begins with, once the stream has been    *)
(* read to its end, when the packet's malloc did not fail.                 *)
(***************************************************************************)
StartsWith(s, w) == Len(w) <= Len(s) /\ SubSeq(s, 1, Len(w)) = w

C13_RoundTrip ==
    \A p \in Packets :
        (/\ StartsWith(stream, EncodePkt(p))
         /\ pc = "done"
         /\ ReadFailed
         /\ ~MallocFailedAt(1))
        => \E k \in PktCalls : trace[k].sync = 1 /\ trace[k].pkt = p

(***************************************************************************)
(* C14.  With the path "-" vbus_init opens nothing and the worker reads    *)
(* descriptor 0, the standard input; with any other path it opens it.      *)
(***************************************************************************)
OpenCalls == {k \in DOMAIN trace : trace[k].op = "open"}

C14_DashIsStdin ==
    IF args.vbus_fn = "-"
    THEN /\ OpenCalls = {}
         /\ pc # "none" => sc.fd = 0
    ELSE \A k \in Events("malloc", "caller", "sc") :
            \E o \in OpenCalls : trace[o].arg = args.vbus_fn

(***************************************************************************)
(* C15.  Registering the key is idempotent: however many vbus_init calls   *)
(* there are and however they interleave, the key is created at most once  *)
(* and every worker's softc is bound under that one key.                   *)
(***************************************************************************)
Attached == {c \in Calls : calls[c].key # -1}

C15_KeyCreatedOnce ==
    /\ Cardinality(keys) <= 1
    /\ \A c, d \in Attached : calls[c].key = calls[d].key

(***************************************************************************)
(* C16.  Once the reader loop runs the worker leaves it only through a     *)
(* byte read that reports end of stream or an error; on every (finite)     *)
(* stream followed by end of stream the worker eventually terminates, and  *)
(* a caller blocked in vbus_join eventually returns.                       *)
(***************************************************************************)
LoopStates == {"hunt", "hdr", "frame", "filter", "infilter"}

LeavesLoopOnReadFailure ==
    (pc \in LoopStates /\ pc' \notin LoopStates)
    => /\ pc \in {"hunt", "hdr", "frame"}
       /\ nread = Len(stream)
       /\ pc' = "exiting"
       /\ trace'[Len(trace')].op = "pthread_exit"

C16_TerminatesOnReadFailure ==
    /\ [][LeavesLoopOnReadFailure]_vars
    /\ (pc \in LoopStates) ~> (pc = "done")
    /\ (joinPc = "blocked") ~> (joinPc = "returned")

C16_Witness ==
    /\ pc = "done"
    /\ ReadFailed
    /\ PktCalls # {}
    /\ joinPc = "returned"
    /\ joinTd = "worker"
    /\ joinRet = retval

(***************************************************************************)
(* C17.  A header byte with the top bit set sends the reader back to the   *)
(* hunt at once, and the byte is consumed: it is not taken as a marker,    *)
(* even when it is 0xaa, and a header is read again only after a marker    *)
(* that comes later in the stream.                                         *)
(***************************************************************************)
HdrAborts == {k \in DOMAIN trace : /\ trace[k].op = "goto top"
                                   /\ trace[k].arg = "hdr-topbit"}

C17_TopBitByteConsumed ==
    /\ pc = "hdr" => \A q \in syncPos + 1 .. nread : stream[q] < 128
    /\ \A a \in HdrAborts :
        LET q == trace[a].pos IN
        /\ stream[q] >= 128
        /\ trace[a].sync < q /\ q <= trace[a].sync + VBUS_WIRE_HDR
        /\ nread = q => pc \in {"hunt", "exiting", "done"}
        /\ syncPos # q
        /\ \A k \in DOMAIN trace : trace[k].sync # q
        /\ pc \in {"hdr", "frame", "filter", "infilter"} => syncPos > q

C17_Witness ==
    /\ pc = "done"
    /\ \E a \in HdrAborts :
         /\ stream[trace[a].pos] = VBUS_SYNC
         /\ WellFormedAt(stream, trace[a].pos)

(***************************************************************************)
(* C18.  Packet lifetime.  As claimed: a packet is allocated only after    *)
(* all its frames have been validated, is handed to the handler            *)
(* synchronously, and is freed as soon as the handler returns, before the  *)
(* next byte is read.                                                      *)
(***************************************************************************)
PktMallocs == Events("malloc", "worker", "pkt")

FramesValidAt(s, q) == \A f \in 1 .. FrameCntAt(s, q) : WireOk(FrameAt(s, q, f))

\* the handler's call is followed at once, with no byte read, by the free
HandedThenFreed ==
    \A k \in PktCalls :
        /\ \E m \in PktMallocs : m < k /\ trace[m].sync = trace[k].sync
        /\ trace[k].pos = PktEndAt(stream, trace[k].sync)
        /\ FramesValidAt(stream, trace[k].sync)
        /\ IF k = Len(trace)
           THEN pc = "infilter" /\ nread = trace[k].pos
           ELSE /\ trace[k + 1].op = "free"
                /\ trace[k + 1].arg = "pkt"
                /\ trace[k + 1].pos = trace[k].pos
                /\ trace[k + 1].sync = trace[k].sync

C18_AllocatedAfterFrames ==
    /\ \A m \in PktMallocs :
          /\ trace[m].pos = PktEndAt(stream, trace[m].sync)
          /\ FramesValidAt(stream, trace[m].sync)
    /\ HandedThenFreed

(***************************************************************************)
(* C18, amended.  A packet is allocated when its header has been           *)
(* validated, before any of its frames is read; it is handed to the        *)
(* handler once all its frames are validated and freed as soon as the      *)
(* handler returns, before the next byte is read.                          *)
(***************************************************************************)
C18_AllocatedAfterHeader ==
    /\ \A m \in PktMallocs :
          /\ trace[m].pos = trace[m].sync + VBUS_WIRE_HDR
          /\ WireOk(HdrAt(stream, trace[m].sync))
    /\ HandedThenFreed

C18_Witness ==
    \E k \in PktCalls :
        /\ trace[k].pkt.frames > 0
        /\ k < Len(trace)
        /\ trace[k + 1].op = "free"
        /\ \E m \in PktMallocs : m < k /\ trace[m].pos < trace[k].pos

(***************************************************************************)
(* C19.  No packet is outstanding while the reader hunts or after the      *)
(* worker has ended: each packet the header decoder allocated has been     *)
(* freed, whether it was delivered, abandoned or cut short by a failed     *)
(* read.                                                                   *)
(***************************************************************************)
C19_NoPacketOutstanding ==
    pc \in {"hunt", "exiting", "done"}
    => /\ pktLive = 0
       /\ Cardinality(PktMallocs) = Cardinality(Events("free", "worker", "pkt"))

(***************************************************************************)
(* C20.  vbus_join reads the thread from a softc that is still allocated,  *)
(* in every interleaving with the worker's teardown, which frees it.       *)
(***************************************************************************)
JoinReadsLiveSc == (joinPc = "idle" /\ joinPc' # "idle") => sc.alloc = "live"

C20_JoinReadsLiveSc == [][JoinReadsLiveSc]_vars

====
